---- MODULE Spec2Model ----
(***************************************************************************)
(* Model of the QckTlk forum server (src/unnamed/part_000): the vote       *)
(* handler POST /posts/:id/vote, the effective POST /posts handler with    *)
(* its post-limit gate, and the handlers that write a user's membership    *)
(* (POST /api/payments, POST /api/users/upgrade, POST /api/users/profile). *)
(*                                                                         *)
(* A handler is a sequence of steps, one per store operation it awaits;    *)
(* the code that runs between two awaits belongs to the step of the await  *)
(* before it.  A slot of `req` holds one request in flight: its inputs,    *)
(* what it has read so far, and its response.                              *)
(***************************************************************************)
EXTENDS Integers, Sequences, FiniteSets, TLC

VARIABLES
  postsCollection,     \* _id -> post document
  usersCollection,     \* sequence of user documents, in insertion order
  paymentsCollection,  \* sequence of payment documents, in insertion order
  req,                 \* slot -> the request that slot is handling
  started,             \* number of vote requests started, of comments inserted so far
  voted,               \* history: post _id -> userIds that sent it a valid vote
  sim,                 \* history: post _id -> the ledger the toggle rules give
  repeatOf,            \* history: <<the document before the vote that the request in slot 1 repeats>>
  base,                \* history: postsCollection when the running batch of requests began
  commentsCollection,  \* sequence of comment documents, in insertion order
  pay,                 \* the request a payment route is handling, with its session
  unhandled,           \* a handler's promise was rejected with nothing to catch it
  ret,                 \* what the last call of canUserCreatePost returned
  tagsCollection,      \* sequence of tag documents, in insertion order
  call                 \* slot -> the request to a users or admin route that slot is handling

vars == <<postsCollection, usersCollection, paymentsCollection, req, started,
          voted, sim, repeatOf, base, commentsCollection, pay, unhandled, ret,
          tagsCollection, call>>

\* The variables the vote, post and membership handlers never touch.
rest == <<commentsCollection, pay, unhandled, ret, tagsCollection, call>>

----------------------------------------------------------------------------
(* Bounds *)

MaxRequests == 5      \* vote requests started in one behaviour of Spec
MaxConcRequests == 3  \* vote requests started in one behaviour of SpecConc
MaxInFlight == 2      \* requests that may overlap in SpecConc
MaxPosts == 7         \* documents postsCollection may hold
MaxPayments == 1      \* documents paymentsCollection may hold
MaxSettlements == 2   \* documents paymentsCollection may hold in SpecPay
MaxActivePosts == 6   \* active posts of one author in the inputs of SpecCan
MaxComments == 2      \* comments inserted in one behaviour
MaxTags == 2          \* documents tagsCollection holds when a tag request may still start
MaxUsers == 3         \* documents usersCollection holds when a profile request may still start

(* Program constants *)

FREE_USER_POST_LIMIT == 5

----------------------------------------------------------------------------
(* Values *)

\* A userId string, written as the sequence of its '.'-separated segments:
\* "u1", "u2" and "a.b".  <<>> is a missing or empty userId.
UserIds == {<<"u1">>, <<"u2">>, <<"a", "b">>}
NoUserId == <<>>

VoteTypes == {"upvote", "downvote"}
BadVoteType == "sideways"

\* Identities: the same string is used as authorName and as email.
Idents == {"alice", "bob"}

MissingPostId == 0    \* a well-formed _id that no document has
MalformedPostId == 0 - 1   \* a string new ObjectId() rejects

Undefined == "undefined"
JsObject == "[object]"

Slots == 1..MaxInFlight

----------------------------------------------------------------------------
(* Documents *)

\* The document POST /posts inserts: counters 0 and no votes field.
NewPost(authorName) ==
  [authorName |-> authorName, upVote |-> 0, downVote |-> 0,
   commentCount |-> 0, hasVotes |-> FALSE, votes |-> << >>]

\* postsCollection.findOne({_id}): <<document>> or << >> (null).
FindPost(posts, id) ==
  IF id \in DOMAIN posts THEN <<posts[id]>> ELSE << >>

\* postsCollection.countDocuments({authorName}).
CountPosts(posts, authorName) ==
  Cardinality({i \in DOMAIN posts : posts[i].authorName = authorName})

\* insertOne: the new document gets an _id no document has had.
InsertPost(posts, doc) ==
  LET id == Cardinality(DOMAIN posts) + 1
  IN  [i \in DOMAIN posts \cup {id} |-> IF i = id THEN doc ELSE posts[i]]

----------------------------------------------------------------------------
(* The votes sub-document.  It is a function from the paths of its leaves   *)
(* to their values: {u1: "upvote", a: {b: "downvote"}} is                   *)
(* (<<"u1">> :> "upvote") @@ (<<"a","b">> :> "downvote").                    *)

IsPrefix(p, q) ==
  /\ Len(p) <= Len(q)
  /\ \A i \in 1..Len(p) : p[i] = q[i]

\* post.votes?.[userId]: the property of votes whose name is the whole
\* userId string.  A stored key never contains '.', so only a userId of one
\* segment can name one; the value is a direction or a nested object.
JsLookup(doc, userId) ==
  IF ~doc.hasVotes \/ Len(userId) # 1 THEN Undefined
  ELSE IF userId \in DOMAIN doc.votes THEN doc.votes[userId]
  ELSE IF \E p \in DOMAIN doc.votes : IsPrefix(userId, p) THEN JsObject
  ELSE Undefined

\* The store cannot create votes.<path> below a leaf that is not an object.
PathBlocked(votes, path) ==
  \E p \in DOMAIN votes : Len(p) < Len(path) /\ IsPrefix(p, path)

\* $set {"votes.<userId>": value}: the store splits the path at each '.'.
MongoSet(votes, path, value) ==
  LET keep == {p \in DOMAIN votes : ~IsPrefix(path, p)}
  IN  [p \in keep \cup {path} |-> IF p = path THEN value ELSE votes[p]]

\* $unset {"votes.<userId>": ""}.
MongoUnset(votes, path) ==
  LET keep == {p \in DOMAIN votes : ~IsPrefix(path, p)}
  IN  [p \in keep |-> votes[p]]

\* The counter a direction belongs to: x === 'upvote' ? 'upVote' : 'downVote'.
CounterOf(x) == IF x = "upvote" THEN "upVote" ELSE "downVote"

\* An object literal {[k1]: v1, [k2]: v2} over the two counters: a repeated
\* key keeps the later value.
IncDoc(k1, v1, k2, v2) ==
  [k \in {"upVote", "downVote"} |->
     IF k = k2 THEN v2 ELSE IF k = k1 THEN v1 ELSE 0]

\* The update document the vote handler builds from the post it read.
VoteUpdate(doc, voteType, userId) ==
  LET userVote == JsLookup(doc, userId)
  IN  IF userVote = voteType
      THEN [inc |-> IncDoc(CounterOf(voteType), -1, CounterOf(voteType), -1),
            op |-> "unset", path |-> userId, value |-> Undefined]
      ELSE IF userVote # Undefined
      THEN [inc |-> IncDoc(CounterOf(voteType), 1, CounterOf(userVote), -1),
            op |-> "set", path |-> userId, value |-> voteType]
      ELSE [inc |-> IncDoc(CounterOf(voteType), 1, CounterOf(voteType), 1),
            op |-> "set", path |-> userId, value |-> voteType]

\* updateOne({_id}, {$set: {votes: {}}}).
InitVotes(doc) == [doc EXCEPT !.hasVotes = TRUE, !.votes = << >>]

\* Mutant of ApplyUpdate: the write carries the $inc alone, the entry being
\* left to a second write.
ApplyUpdate_CountersOnly(doc, update) ==
  [doc EXCEPT
     !.upVote = @ + update.inc["upVote"],
     !.downVote = @ + update.inc["downVote"]]

\* updateOne({_id}, update): $inc and $set/$unset applied to the stored
\* document in one atomic single-document write.
ApplyUpdate(doc, update) ==
  [doc EXCEPT
     !.upVote = @ + update.inc["upVote"],
     !.downVote = @ + update.inc["downVote"],
     !.hasVotes = IF update.op = "set" THEN TRUE ELSE @,
     !.votes = IF update.op = "set"
               THEN MongoSet(@, update.path, update.value)
               ELSE MongoUnset(@, update.path)]

\* The body of the vote response: fields of the document read at the start.
\* The documents of this server have no userVote field.
VoteResponse(doc) ==
  [status |-> 200, upVote |-> doc.upVote, downVote |-> doc.downVote,
   userVote |-> Undefined, limitReached |-> Undefined]

----------------------------------------------------------------------------
(* Users and payments *)

Memberships == {"free", "premium", "gold"}

\* usersCollection.findOne({email}): <<document>> or << >> (null).
FindUser(users, email) ==
  LET hits == {i \in 1..Len(users) : users[i].email = email}
  IN  IF hits = {} THEN << >>
      ELSE <<users[CHOOSE i \in hits : \A j \in hits : i <= j]>>

\* Variant of UpsertMembership: an update without upsert.
UpsertMembership_UpdateOnly(users, email, membership) ==
  LET hits == {i \in 1..Len(users) : users[i].email = email}
  IN  IF hits = {}
      THEN users
      ELSE LET first == CHOOSE i \in hits : \A j \in hits : i <= j
           IN  [users EXCEPT ![first].membership = membership]

\* updateOne({email}, {$set: {membership}}, {upsert: true}): the first
\* matching document is updated; with none, one is inserted.
UpsertMembership(users, email, membership) ==
  LET hits == {i \in 1..Len(users) : users[i].email = email}
  IN  IF hits = {}
      THEN Append(users, [email |-> email, membership |-> membership])
      ELSE LET first == CHOOSE i \in hits : \A j \in hits : i <= j
           IN  [users EXCEPT ![first].membership = membership]

\* Variant of LimitReached: an author without user record is not limited.
LimitReached_RecordOnly(user, userPostsCount) ==
  /\ (user # << >> /\ user[1].membership # "gold")
  /\ userPostsCount >= 5

\* Mutant of LimitReached: the comparison is off by one.
LimitReached_OffByOne(user, userPostsCount) ==
  /\ (user = << >> \/ user[1].membership # "gold")
  /\ userPostsCount > 5

\* The post-limit test of the first POST /posts handler.
LimitReached(user, userPostsCount) ==
  /\ (user = << >> \/ user[1].membership # "gold")
  /\ userPostsCount >= 5

----------------------------------------------------------------------------
(* Requests *)

NoRes ==
  [status |-> 0, upVote |-> 0, downVote |-> 0, userVote |-> Undefined,
   limitReached |-> Undefined]

Res(status) == [NoRes EXCEPT !.status = status]

Idle ==
  [kind |-> "idle", pc |-> "idle", postId |-> 0, userId |-> NoUserId,
   voteType |-> "", authorName |-> "", post |-> << >>, user |-> << >>,
   count |-> 0, commentId |-> 0, res |-> NoRes]

\* A slot is free when it handles no request: its last one has been answered.
Free(s) == req[s].pc \in {"idle", "done"}
Quiet == \A s \in Slots : Free(s)

\* The slot a new request takes.  A request that starts while none is in
\* flight begins a new batch, in slot 1; one that overlaps takes the next slot.
NextSlot ==
  IF Quiet THEN 1
  ELSE IF \E s \in Slots : req[s].kind = "idle"
       THEN CHOOSE s \in Slots : req[s].kind = "idle" /\ \A t \in Slots : req[t].kind = "idle" => s <= t
       ELSE 0

\* req with slot s taking request r; the slots of a finished batch are cleared.
Take(s, r) ==
  [t \in Slots |-> IF t = s THEN r ELSE IF Quiet THEN Idle ELSE req[t]]

----------------------------------------------------------------------------
(* The ledger the toggle rules of the vote design give                       *)

NoVote == "none"

NewLedger == [up |-> 0, down |-> 0, entry |-> [u \in UserIds |-> NoVote]]

Bump(ledger, direction, n) ==
  IF direction = "upvote" THEN [ledger EXCEPT !.up = @ + n]
  ELSE [ledger EXCEPT !.down = @ + n]

ToggleRule(ledger, voter, direction) ==
  LET previous == ledger.entry[voter]
  IN  IF previous = direction
      THEN [Bump(ledger, direction, -1) EXCEPT !.entry[voter] = NoVote]
      ELSE IF previous # NoVote
      THEN [Bump(Bump(ledger, previous, -1), direction, 1) EXCEPT !.entry[voter] = direction]
      ELSE [Bump(ledger, direction, 1) EXCEPT !.entry[voter] = direction]

----------------------------------------------------------------------------
(* POST /posts/:id/vote *)

\* Validation and the read of the post.
VoteStart(s, id, voteType, userId) ==
  /\ s \in Slots
  /\ started < MaxRequests
  /\ started' = started + 1
  /\ base' = IF Quiet THEN postsCollection ELSE base
  /\ repeatOf' = IF /\ Quiet
                    /\ req[1].kind = "vote" /\ req[1].res.status = 200
                    /\ <<req[1].postId, req[1].voteType, req[1].userId>> = <<id, voteType, userId>>
                 THEN req[1].post
                 ELSE << >>
  /\ LET post == FindPost(postsCollection, id)
         r == [Idle EXCEPT !.kind = "vote", !.postId = id, !.userId = userId,
                           !.voteType = voteType, !.post = post]
     IN  IF voteType \notin VoteTypes
         THEN /\ req' = Take(s, [r EXCEPT !.pc = "done", !.post = << >>, !.res = Res(400)])
              /\ voted' = voted
         ELSE IF userId = NoUserId
         THEN /\ req' = Take(s, [r EXCEPT !.pc = "done", !.post = << >>, !.res = Res(401)])
              /\ voted' = voted
         ELSE IF id = MalformedPostId
         THEN /\ req' = Take(s, [r EXCEPT !.pc = "done", !.post = << >>, !.res = Res(500)])
              /\ voted' = voted
         ELSE IF post = << >>
         THEN /\ req' = Take(s, [r EXCEPT !.pc = "done", !.res = Res(404)])
              /\ voted' = voted
         ELSE /\ req' = Take(s, [r EXCEPT !.pc = IF post[1].hasVotes THEN "update" ELSE "init"])
              /\ voted' = [voted EXCEPT ![id] = @ \cup {userId}]
  /\ UNCHANGED <<postsCollection, usersCollection, paymentsCollection, sim, rest>>

\* The post read had no votes field: write votes = {}.
VoteInit(s) ==
  /\ req[s].kind = "vote"
  /\ req[s].pc = "init"
  /\ LET id == req[s].postId
     IN  postsCollection' =
           IF id \in DOMAIN postsCollection
           THEN [postsCollection EXCEPT ![id] = InitVotes(@)]
           ELSE postsCollection
  /\ req' = [req EXCEPT ![s].pc = "update"]
  /\ UNCHANGED <<usersCollection, paymentsCollection, started, voted, sim, repeatOf, base, rest>>

\* Build the update from the post read, apply it, answer.
VoteApply(s) ==
  /\ req[s].kind = "vote"
  /\ req[s].pc = "update"
  /\ LET id == req[s].postId
         read == req[s].post[1]
         update == VoteUpdate(read, req[s].voteType, req[s].userId)
         blocked == /\ id \in DOMAIN postsCollection
                    /\ update.op = "set"
                    /\ PathBlocked(postsCollection[id].votes, update.path)
     IN  IF blocked
         THEN /\ req' = [req EXCEPT ![s].pc = "done", ![s].res = Res(500)]
              /\ UNCHANGED <<postsCollection, sim>>
         ELSE /\ postsCollection' =
                   IF id \in DOMAIN postsCollection
                   THEN [postsCollection EXCEPT ![id] = ApplyUpdate(@, update)]
                   ELSE postsCollection
              /\ req' = [req EXCEPT ![s].pc = "done", ![s].res = VoteResponse(read)]
              /\ sim' = [sim EXCEPT ![id] = ToggleRule(@, req[s].userId, req[s].voteType)]
  /\ UNCHANGED <<usersCollection, paymentsCollection, started, voted, repeatOf, base, rest>>

----------------------------------------------------------------------------
(* POST /posts.  The route is registered twice; the router runs the first   *)
(* handler, which answers every request and never passes it on, so the      *)
(* second registration never runs.                                          *)

\* Validation and the read of the user whose email is authorName.
PostStart(s, authorName, complete) ==
  /\ s \in Slots
  /\ Cardinality(DOMAIN postsCollection) < MaxPosts
  /\ LET r == [Idle EXCEPT !.kind = "post", !.authorName = authorName]
     IN  IF ~complete \/ authorName = ""
         THEN req' = Take(s, [r EXCEPT !.pc = "done", !.res = Res(400)])
         ELSE req' = Take(s, [r EXCEPT !.pc = "count",
                                       !.user = FindUser(usersCollection, authorName)])
  /\ UNCHANGED <<postsCollection, usersCollection, paymentsCollection, started,
                 voted, sim, repeatOf, base, rest>>

\* The count of the author's posts, and the limit test.
PostCount(s) ==
  /\ req[s].kind = "post"
  /\ req[s].pc = "count"
  /\ LET userPostsCount == CountPosts(postsCollection, req[s].authorName)
     IN  IF LimitReached(req[s].user, userPostsCount)
         THEN req' = [req EXCEPT ![s].pc = "done", ![s].count = userPostsCount,
                                 ![s].res = Res(403)]
         ELSE req' = [req EXCEPT ![s].pc = "insert", ![s].count = userPostsCount]
  /\ UNCHANGED <<postsCollection, usersCollection, paymentsCollection, started,
                 voted, sim, repeatOf, base, rest>>

\* insertOne(newPost) and the 201 answer.
PostInsert(s) ==
  /\ req[s].kind = "post"
  /\ req[s].pc = "insert"
  /\ postsCollection' = InsertPost(postsCollection, NewPost(req[s].authorName))
  /\ LET id == CHOOSE i \in DOMAIN postsCollection' : i \notin DOMAIN postsCollection
     IN  /\ req' = [req EXCEPT ![s].pc = "done", ![s].postId = id, ![s].res = Res(201)]
         /\ sim' = [i \in DOMAIN postsCollection' |-> IF i = id THEN NewLedger ELSE sim[i]]
         /\ voted' = [i \in DOMAIN postsCollection' |-> IF i = id THEN {} ELSE voted[i]]
  /\ UNCHANGED <<usersCollection, paymentsCollection, started, repeatOf, base, rest>>

----------------------------------------------------------------------------
(* The handlers that write the users collection, each as one step.  The     *)
(* upserts are a single write of the store; GET /api/users/profile is one   *)
(* step only where requests do not overlap (ProfileFind and ProfileInsert   *)
(* are its two steps).                                                      *)

Statuses == {"succeeded", "failed"}
MembershipTypes == {"premium", "free", "gold"}   \* req.body.membershipType; absent means 'premium'
PaymentIntentIds == {"pi_1"}

\* A handler that is a single step: the request is answered at once.
Answered(kind, status) ==
  [Idle EXCEPT !.kind = kind, !.pc = "done", !.res = Res(status)]

\* POST /api/payments: inside one transaction, insert the payment and, for
\* status 'succeeded', upsert the user's membership.
Payment(s, email, status, paymentIntentId, membershipType, complete) ==
  /\ s \in Slots
  /\ Len(paymentsCollection) < MaxPayments
  /\ IF ~complete \/ email = ""
     THEN /\ req' = Take(s, Answered("payment", 500))
          /\ UNCHANGED <<paymentsCollection, usersCollection>>
     ELSE /\ paymentsCollection' =
               Append(paymentsCollection,
                      [email |-> email, status |-> status,
                       paymentIntentId |-> paymentIntentId,
                       membershipType |-> membershipType])
          /\ usersCollection' =
               IF status = "succeeded"
               THEN UpsertMembership(usersCollection, email, membershipType)
               ELSE usersCollection
          /\ req' = Take(s, Answered("payment", 200))
  /\ UNCHANGED <<postsCollection, started, voted, sim, repeatOf, base, rest>>

\* POST /api/users/upgrade: upsert membership 'gold'.
Upgrade(s, email) ==
  /\ s \in Slots
  /\ IF email = ""
     THEN /\ req' = Take(s, Answered("upgrade", 400))
          /\ usersCollection' = usersCollection
     ELSE /\ usersCollection' = UpsertMembership(usersCollection, email, "gold")
          /\ req' = Take(s, Answered("upgrade", 200))
  /\ UNCHANGED <<postsCollection, paymentsCollection, started, voted, sim, repeatOf, base, rest>>

\* POST /api/users/profile: upsert the profile; the $set carries membership 'free'.
ProfilePost(s, email) ==
  /\ s \in Slots
  /\ IF email = ""
     THEN /\ req' = Take(s, Answered("profilePost", 400))
          /\ usersCollection' = usersCollection
     ELSE /\ usersCollection' = UpsertMembership(usersCollection, email, "free")
          /\ req' = Take(s, Answered("profilePost", 200))
  /\ UNCHANGED <<postsCollection, paymentsCollection, started, voted, sim, repeatOf, base, rest>>

\* GET /api/users/profile: a user that does not exist is created as 'free'.
ProfileGet(s, email) ==
  /\ s \in Slots
  /\ IF email = ""
     THEN /\ req' = Take(s, Answered("profileGet", 400))
          /\ usersCollection' = usersCollection
     ELSE /\ usersCollection' =
               IF FindUser(usersCollection, email) = << >>
               THEN Append(usersCollection, [email |-> email, membership |-> "free"])
               ELSE usersCollection
          /\ req' = Take(s, Answered("profileGet", 200))
  /\ UNCHANGED <<postsCollection, paymentsCollection, started, voted, sim, repeatOf, base, rest>>

----------------------------------------------------------------------------
(* POST /api/payments, step by step.  The handler opens a session and runs  *)
(* its two writes inside session.withTransaction: they are staged in the    *)
(* session and reach the collections together, at the commit, or not at     *)
(* all.  A store operation may fail; ok = FALSE is the failing run.         *)

NoPayRes == [status |-> 0, membershipUpdated |-> Undefined]

NoPay ==
  [kind |-> "idle", pc |-> "idle", email |-> "", status |-> "",
   paymentIntentId |-> "", membershipType |-> "", complete |-> FALSE,
   payments |-> << >>, users |-> << >>,
   before |-> [payments |-> << >>, users |-> << >>],
   committed |-> FALSE, res |-> NoPayRes]

PayFree == pay.pc \in {"idle", "done"}

\* The document the handler inserts into the payments collection.
PaymentDoc(p) ==
  [email |-> p.email, status |-> p.status,
   paymentIntentId |-> p.paymentIntentId, membershipType |-> p.membershipType]

\* The callback threw or a store operation failed: the transaction is
\* aborted and the catch block answers 500.
PayAbort(p) ==
  [p EXCEPT !.pc = "done", !.payments = << >>, !.users = << >>,
            !.res = [status |-> 500, membershipUpdated |-> Undefined]]

\* Variant of CommitTransaction: the membership write is outside the session.
CommitTransaction_PaymentsOnly(p) ==
  [payments |-> p.payments, users |-> p.before.users]

\* The commit of the transaction: the collections as the session left them.
CommitTransaction(p) ==
  [payments |-> p.payments, users |-> p.users]

\* startSession, the destructuring of req.body and the required-field test.
PayStart(email, status, paymentIntentId, membershipType, complete) ==
  /\ PayFree
  /\ Len(paymentsCollection) < MaxSettlements
  /\ LET p == [NoPay EXCEPT !.kind = "payment", !.email = email, !.status = status,
                            !.paymentIntentId = paymentIntentId,
                            !.membershipType = membershipType, !.complete = complete,
                            !.before = [payments |-> paymentsCollection,
                                        users |-> usersCollection]]
     IN  IF ~complete \/ email = ""
         THEN pay' = PayAbort(p)
         ELSE pay' = [p EXCEPT !.pc = "insert", !.payments = paymentsCollection,
                               !.users = usersCollection]
  /\ UNCHANGED <<postsCollection, usersCollection, paymentsCollection, req, started,
                 voted, sim, repeatOf, base, commentsCollection, unhandled, ret,
                 tagsCollection, call>>

\* paymentsCollection.insertOne(payment, {session}).
PayInsert(ok) ==
  /\ pay.kind = "payment"
  /\ pay.pc = "insert"
  /\ IF ok
     THEN pay' = [pay EXCEPT !.payments = Append(@, PaymentDoc(pay)),
                             !.pc = IF pay.status = "succeeded" THEN "upsert" ELSE "respond"]
     ELSE pay' = PayAbort(pay)
  /\ UNCHANGED <<postsCollection, usersCollection, paymentsCollection, req, started,
                 voted, sim, repeatOf, base, commentsCollection, unhandled, ret,
                 tagsCollection, call>>

\* usersCollection.updateOne({email}, {$set: {membership}}, {upsert, session}).
PayUpsert(ok) ==
  /\ pay.kind = "payment"
  /\ pay.pc = "upsert"
  /\ IF ok
     THEN pay' = [pay EXCEPT !.users = UpsertMembership(@, pay.email, pay.membershipType),
                             !.pc = "respond"]
     ELSE pay' = PayAbort(pay)
  /\ UNCHANGED <<postsCollection, usersCollection, paymentsCollection, req, started,
                 voted, sim, repeatOf, base, commentsCollection, unhandled, ret,
                 tagsCollection, call>>

\* res.json, the last statement of the callback: sent before the commit.
PayRespond ==
  /\ pay.kind = "payment"
  /\ pay.pc = "respond"
  /\ pay' = [pay EXCEPT !.pc = "commit",
                        !.res = [status |-> 200,
                                 membershipUpdated |-> (pay.status = "succeeded")]]
  /\ UNCHANGED <<postsCollection, usersCollection, paymentsCollection, req, started,
                 voted, sim, repeatOf, base, commentsCollection, unhandled, ret,
                 tagsCollection, call>>

\* The commit withTransaction runs after the callback.  When it fails the
\* catch block calls res.status(500).json on a response already sent, which
\* throws out of the handler: a rejection the router of express 5 takes and
\* that of express 4 leaves unhandled (rejected).
PayCommit(ok, rejected) ==
  /\ pay.kind = "payment"
  /\ pay.pc = "commit"
  /\ IF ok
     THEN /\ paymentsCollection' = CommitTransaction(pay).payments
          /\ usersCollection' = CommitTransaction(pay).users
          /\ pay' = [pay EXCEPT !.pc = "done", !.committed = TRUE]
          /\ unhandled' = unhandled
     ELSE /\ UNCHANGED <<paymentsCollection, usersCollection>>
          /\ pay' = [pay EXCEPT !.pc = "done", !.payments = << >>, !.users = << >>]
          /\ unhandled' = (unhandled \/ rejected)
  /\ UNCHANGED <<postsCollection, req, started, voted, sim, repeatOf, base,
                 commentsCollection, ret,
                 tagsCollection, call>>

\* POST /create-payment-intent, the first registration, which answers every
\* request: no validation and no try/catch around the call of the payment
\* processor.  When the call fails the handler's promise is rejected:
\* express 5 answers 500 from its error handler, express 4 leaves the
\* rejection unhandled and the request unanswered (rejected).
CreatePaymentIntent(ok, rejected) ==
  /\ PayFree
  /\ pay' = [NoPay EXCEPT !.kind = "intent", !.pc = "done",
                          !.res = [status |-> IF ok THEN 200
                                              ELSE IF rejected THEN 0 ELSE 500,
                                   membershipUpdated |-> Undefined]]
  /\ unhandled' = (unhandled \/ (~ok /\ rejected))
  /\ UNCHANGED <<postsCollection, usersCollection, paymentsCollection, req, started,
                 voted, sim, repeatOf, base, commentsCollection, ret,
                 tagsCollection, call>>

----------------------------------------------------------------------------
(* canUserCreatePost.  Its only caller is the second registration of        *)
(* POST /posts, whose documents carry authorEmail and status.               *)

\* A post document as the count query of canUserCreatePost reads it;
\* status Undefined is a document without the field.
PostOf(authorEmail, status) == [authorEmail |-> authorEmail, status |-> status]

\* countDocuments({authorEmail: email, status: {$ne: 'deleted'}}): $ne also
\* matches a document that has no status.
CountNotDeleted(posts, email) ==
  Cardinality({i \in DOMAIN posts :
                 posts[i].authorEmail = email /\ posts[i].status # "deleted"})

\* Variant of canUserCreatePost: the count query has no status filter.
canUserCreatePost_CountsDeleted(users, posts, email, ok) ==
  LET user == FindUser(users, email)
      postCount == Cardinality({i \in DOMAIN posts : posts[i].authorEmail = email})
  IN  IF ~ok
      THEN [threw |-> TRUE, canPost |-> Undefined, postCount |-> Undefined, limit |-> Undefined]
      ELSE IF user # << >> /\ user[1].membership = "premium"
      THEN [threw |-> FALSE, canPost |-> TRUE, postCount |-> Undefined, limit |-> Undefined]
      ELSE [threw |-> FALSE, canPost |-> postCount < FREE_USER_POST_LIMIT,
            postCount |-> postCount, limit |-> FREE_USER_POST_LIMIT]

\* canUserCreatePost(email); ok = FALSE is a run in which a query fails and
\* the catch block throws.
canUserCreatePost(users, posts, email, ok) ==
  LET user == FindUser(users, email)
      postCount == CountNotDeleted(posts, email)
  IN  IF ~ok
      THEN [threw |-> TRUE, canPost |-> Undefined, postCount |-> Undefined, limit |-> Undefined]
      ELSE IF user # << >> /\ user[1].membership = "premium"
      THEN [threw |-> FALSE, canPost |-> TRUE, postCount |-> Undefined, limit |-> Undefined]
      ELSE [threw |-> FALSE, canPost |-> postCount < FREE_USER_POST_LIMIT,
            postCount |-> postCount, limit |-> FREE_USER_POST_LIMIT]

\* One call of the function on the collections as they are.
CallCanUserCreatePost(email, ok) ==
  /\ ret' = <<[email |-> email,
               result |-> canUserCreatePost(usersCollection, postsCollection, email, ok)]>>
  /\ UNCHANGED <<postsCollection, usersCollection, paymentsCollection, req, started,
                 voted, sim, repeatOf, base, commentsCollection, pay, unhandled,
                 tagsCollection, call>>

----------------------------------------------------------------------------
(* POST /posts/:id/comments and DELETE /posts/:id.  Each is one step here:  *)
(* requests do not overlap in the specification that uses them.             *)

\* A postId as a comment document or a query holds it: the ObjectId made
\* from the path parameter, or the path parameter itself, a string.
AsObjectId(id) == <<"ObjectId", id>>
AsString(id) == <<"string", id>>

\* POST /posts/:id/comments: insert the comment with postId an ObjectId,
\* then increment commentCount of the post when the post exists.
CommentAdd(s, id, authorName, complete) ==
  /\ s \in Slots
  /\ started < MaxComments
  /\ LET r == [Idle EXCEPT !.kind = "comment", !.postId = id, !.authorName = authorName]
     IN  IF ~complete \/ authorName = ""
         THEN /\ req' = Take(s, [r EXCEPT !.pc = "done", !.res = Res(400)])
              /\ UNCHANGED <<commentsCollection, postsCollection, started>>
         ELSE IF id = MalformedPostId
         THEN /\ req' = Take(s, [r EXCEPT !.pc = "done", !.res = Res(500)])
              /\ UNCHANGED <<commentsCollection, postsCollection, started>>
         ELSE /\ commentsCollection' =
                   Append(commentsCollection,
                          [_id |-> started + 1, postId |-> AsObjectId(id),
                           authorName |-> authorName])
              /\ started' = started + 1
              /\ postsCollection' =
                   IF id \in DOMAIN postsCollection
                   THEN [postsCollection EXCEPT ![id].commentCount = @ + 1]
                   ELSE postsCollection
              /\ req' = Take(s, [r EXCEPT !.pc = "done", !.commentId = started + 1,
                                           !.res = Res(201)])
  /\ UNCHANGED <<usersCollection, paymentsCollection, voted, sim, repeatOf,
                 base, pay, unhandled, ret,
                 tagsCollection, call>>

\* Variant of MayDelete: no test of the author.
MayDelete_Anyone(post, authorName) == post.authorName = post.authorName

\* The author test of DELETE /posts/:id.
MayDelete(post, authorName) == post.authorName = authorName

\* postsCollection.deleteOne({_id}).
DeleteOne(posts, id) == [i \in DOMAIN posts \ {id} |-> posts[i]]

\* commentsCollection.deleteMany({postId: key}): a comment matches when its
\* postId has the type and the value of key.
DeleteMany(comments, key) == SelectSeq(comments, LAMBDA c : c.postId # key)

\* DELETE /posts/:id: validation, the read of the post, the author test, then
\* deleteOne and deleteMany({postId: id}) with id the path parameter.
DeletePost(s, id, authorName) ==
  /\ s \in Slots
  /\ LET post == FindPost(postsCollection, id)
         r == [Idle EXCEPT !.kind = "delete", !.postId = id, !.authorName = authorName,
                           !.pc = "done"]
     IN  IF authorName = "" \/ id = MalformedPostId
         THEN /\ req' = Take(s, [r EXCEPT !.res = Res(400)])
              /\ UNCHANGED <<commentsCollection, postsCollection>>
         ELSE IF post = << >>
         THEN /\ req' = Take(s, [r EXCEPT !.res = Res(404)])
              /\ UNCHANGED <<commentsCollection, postsCollection>>
         ELSE IF ~MayDelete(post[1], authorName)
         THEN /\ req' = Take(s, [r EXCEPT !.post = post, !.res = Res(403)])
              /\ UNCHANGED <<commentsCollection, postsCollection>>
         ELSE /\ postsCollection' = DeleteOne(postsCollection, id)
              /\ commentsCollection' = DeleteMany(commentsCollection, AsString(id))
              /\ req' = Take(s, [r EXCEPT !.post = post, !.res = Res(200)])
  /\ UNCHANGED <<usersCollection, paymentsCollection, started, voted, sim, repeatOf,
                 base, pay, unhandled, ret,
                 tagsCollection, call>>

\* commentsCollection.findOne({_id}): <<document>> or << >> (null).
FindComment(comments, id) ==
  LET hits == {i \in 1..Len(comments) : comments[i]._id = id}
  IN  IF hits = {} THEN << >> ELSE <<comments[CHOOSE i \in hits : TRUE]>>

\* The ids a comment request may name.
CommentIds == 1..MaxComments

\* DELETE /posts/:postId/comments/:commentId: the post of the path, the
\* comment of the path, the author test, then deleteOne on the comment and
\* $inc commentCount -1 on the post of the path.
DeleteComment(s, postId, commentId, authorName) ==
  /\ s \in Slots
  /\ LET post == FindPost(postsCollection, postId)
         comment == FindComment(commentsCollection, commentId)
         r == [Idle EXCEPT !.kind = "deleteComment", !.postId = postId,
                           !.commentId = commentId, !.authorName = authorName,
                           !.pc = "done"]
     IN  IF authorName = ""
         THEN /\ req' = Take(s, [r EXCEPT !.res = Res(400)])
              /\ UNCHANGED <<commentsCollection, postsCollection>>
         ELSE IF postId = MalformedPostId
         THEN /\ req' = Take(s, [r EXCEPT !.res = Res(500)])
              /\ UNCHANGED <<commentsCollection, postsCollection>>
         ELSE IF post = << >>
         THEN /\ req' = Take(s, [r EXCEPT !.res = Res(404)])
              /\ UNCHANGED <<commentsCollection, postsCollection>>
         ELSE IF commentId = MalformedPostId
         THEN /\ req' = Take(s, [r EXCEPT !.res = Res(500)])
              /\ UNCHANGED <<commentsCollection, postsCollection>>
         ELSE IF comment = << >>
         THEN /\ req' = Take(s, [r EXCEPT !.res = Res(404)])
              /\ UNCHANGED <<commentsCollection, postsCollection>>
         ELSE IF post[1].authorName # authorName /\ comment[1].authorName # authorName
         THEN /\ req' = Take(s, [r EXCEPT !.res = Res(403)])
              /\ UNCHANGED <<commentsCollection, postsCollection>>
         ELSE /\ commentsCollection' =
                   SelectSeq(commentsCollection, LAMBDA c : c._id # commentId)
              /\ postsCollection' = [postsCollection EXCEPT ![postId].commentCount = @ - 1]
              /\ req' = Take(s, [r EXCEPT !.res = Res(200)])
  /\ UNCHANGED <<usersCollection, paymentsCollection, started, voted, sim, repeatOf,
                 base, pay, unhandled, ret, tagsCollection, call>>

----------------------------------------------------------------------------
(* The users routes step by step, and the routes mounted under /api/admin.  *)

\* No request in the slot.  email is the email of the request (of the
\* verified token, for an admin route); res is the status of the answer.
NoCall ==
  [kind |-> "idle", pc |-> "idle", auth |-> << >>, email |-> "", verified |-> FALSE,
   name |-> "", target |-> 0, role |-> "", action |-> "", res |-> 0]

CallFree(s) == call[s].pc \in {"idle", "done"}

\* GET /api/users/profile, first step: the email test and findOne({email}).
ProfileFind(s, email) ==
  /\ CallFree(s)
  /\ Len(usersCollection) < MaxUsers
  /\ LET r == [NoCall EXCEPT !.kind = "profileGet", !.email = email]
     IN  IF email = ""
         THEN call' = [call EXCEPT ![s] = [r EXCEPT !.pc = "done", !.res = 400]]
         ELSE IF FindUser(usersCollection, email) # << >>
         THEN call' = [call EXCEPT ![s] = [r EXCEPT !.pc = "done", !.res = 200]]
         ELSE call' = [call EXCEPT ![s] = [r EXCEPT !.pc = "insert"]]
  /\ UNCHANGED <<postsCollection, usersCollection, paymentsCollection, req, started,
                 voted, sim, repeatOf, base, commentsCollection, pay, unhandled, ret,
                 tagsCollection>>

\* GET /api/users/profile, second step: no user was found, insertOne(defaultUser).
ProfileInsert(s) ==
  /\ call[s].kind = "profileGet"
  /\ call[s].pc = "insert"
  /\ usersCollection' =
       Append(usersCollection, [email |-> call[s].email, membership |-> "free"])
  /\ call' = [call EXCEPT ![s].pc = "done", ![s].res = 200]
  /\ UNCHANGED <<postsCollection, paymentsCollection, req, started,
                 voted, sim, repeatOf, base, commentsCollection, pay, unhandled, ret,
                 tagsCollection>>

----------------------------------------------------------------------------
(* src/routes/admin.routes.js, mounted under /api/admin behind verifyAdmin, *)
(* and PATCH /api/users/:userId/role of the main server.  verifyAdmin is    *)
(* one step and each store operation of a handler another; a user's _id is  *)
(* its position in usersCollection, records never being deleted.            *)

\* An Authorization header as split(" ") reads it: << >> is no header,
\* <<"Bearer">> a header without token.  The token "bad" fails
\* verifyIdToken; any other token is verified and decodes to that email.
AuthHeaders ==
  {<< >>, <<"Bearer">>, <<"Bearer", "bad">>, <<"Bearer", "alice">>,
   <<"Bearer", "bob">>, <<"Bearer", "carol">>}

TokenOf(auth) == IF Len(auth) < 2 THEN Undefined ELSE auth[2]

\* user.role; Undefined for a record without the field.
RoleOf(user) == IF "role" \in DOMAIN user THEN user.role ELSE Undefined

\* Variant of verifyAdmin: every verified token passes.
verifyAdmin_AnyToken(users, auth) ==
  IF auth = << >> THEN 401
  ELSE IF TokenOf(auth) = Undefined THEN 401
  ELSE IF TokenOf(auth) = "bad" THEN 403
  ELSE 0

\* verifyAdmin: the status it answers, or 0 when it calls next().
verifyAdmin(users, auth) ==
  IF auth = << >> THEN 401
  ELSE IF TokenOf(auth) = Undefined THEN 401
  ELSE IF TokenOf(auth) = "bad" THEN 403
  ELSE LET user == FindUser(users, TokenOf(auth))
       IN  IF user = << >> \/ RoleOf(user[1]) # "admin" THEN 403 ELSE 0

\* name.trim() on the names a request may carry.
TagNames == {"js", " js ", "  "}
Trim(name) == CASE name = " js " -> "js" [] name = "  " -> "" [] OTHER -> name

Roles == {"admin", "member", "owner"}
UserIdsOf(users) == 1..Len(users)

\* The slot a new call takes: the first one that holds no call in progress.
CallSlot(s) == CallFree(s) /\ \A t \in Slots : t < s => ~CallFree(t)

\* The request in slot s is answered with r; the slots keep the last answer only.
Answer(s, r) ==
  [t \in Slots |-> IF t = s THEN [r EXCEPT !.pc = "done"]
                   ELSE IF call[t].pc = "done" THEN NoCall ELSE call[t]]

AdminKinds == {"adminTags", "adminRole", "adminReport"}

\* router.use(verifyAdmin) in front of a request to an admin route: answered
\* by verifyAdmin, or handed to its handler.
AdminVerify(s, kind, auth) ==
  /\ CallSlot(s)
  /\ kind = "adminTags" => Len(tagsCollection) < MaxTags
  /\ LET status == verifyAdmin(usersCollection, auth)
         r == [NoCall EXCEPT !.kind = kind, !.auth = auth]
     IN  IF status # 0
         THEN call' = Answer(s, [r EXCEPT !.res = status])
         ELSE call' = [call EXCEPT ![s] = [r EXCEPT !.pc = "handler", !.verified = TRUE,
                                                    !.email = TokenOf(auth)]]
  /\ UNCHANGED <<postsCollection, usersCollection, paymentsCollection, req, started,
                 voted, sim, repeatOf, base, commentsCollection, pay, unhandled, ret,
                 tagsCollection>>

\* POST /api/admin/tags, first step: the name test and findOne({name}).
AdminTagFind(s, name) ==
  /\ call[s].kind = "adminTags"
  /\ call[s].pc = "handler"
  /\ LET r == [call[s] EXCEPT !.name = name]
     IN  IF Trim(name) = ""
         THEN call' = Answer(s, [r EXCEPT !.res = 400])
         ELSE IF \E i \in 1..Len(tagsCollection) : tagsCollection[i].name = Trim(name)
         THEN call' = Answer(s, [r EXCEPT !.res = 400])
         ELSE call' = [call EXCEPT ![s] = [r EXCEPT !.pc = "insert"]]
  /\ UNCHANGED <<postsCollection, usersCollection, paymentsCollection, req, started,
                 voted, sim, repeatOf, base, commentsCollection, pay, unhandled, ret,
                 tagsCollection>>

\* POST /api/admin/tags, second step: insertOne({name: name.trim(), ...}).
AdminTagInsert(s) ==
  /\ call[s].kind = "adminTags"
  /\ call[s].pc = "insert"
  /\ tagsCollection' =
       Append(tagsCollection, [name |-> Trim(call[s].name), createdBy |-> call[s].email])
  /\ call' = Answer(s, [call[s] EXCEPT !.res = 201])
  /\ UNCHANGED <<postsCollection, usersCollection, paymentsCollection, req, started,
                 voted, sim, repeatOf, base, commentsCollection, pay, unhandled, ret>>

\* updateOne({_id}, {$set: {role}}) of the two role routes, with their
\* answers: 400 for a role outside the two values, 500 for a malformed id,
\* 404 when no record matches.
SetRole(users, target, role) ==
  IF role \notin {"admin", "member"} THEN [users |-> users, res |-> 400]
  ELSE IF target = MalformedPostId THEN [users |-> users, res |-> 500]
  ELSE IF target \notin UserIdsOf(users) THEN [users |-> users, res |-> 404]
  ELSE [users |-> [users EXCEPT ![target] =
                     [f \in DOMAIN @ \cup {"role"} |-> IF f = "role" THEN role ELSE @[f]]],
        res |-> 200]

\* PATCH /api/admin/users/:userId/role.
AdminRolePatch(s, target, role) ==
  /\ call[s].kind = "adminRole"
  /\ call[s].pc = "handler"
  /\ LET out == SetRole(usersCollection, target, role)
     IN  /\ usersCollection' = out.users
         /\ call' = Answer(s, [call[s] EXCEPT !.res = out.res])
  /\ UNCHANGED <<postsCollection, paymentsCollection, req, started,
                 voted, sim, repeatOf, base, commentsCollection, pay, unhandled, ret,
                 tagsCollection>>

\* PATCH /api/users/:userId/role of the main server: no middleware before it.
RolePatch(s, target, role) ==
  /\ CallSlot(s)
  /\ LET out == SetRole(usersCollection, target, role)
     IN  /\ usersCollection' = out.users
         /\ call' = Answer(s, [NoCall EXCEPT !.kind = "role", !.res = out.res])
  /\ UNCHANGED <<postsCollection, paymentsCollection, req, started,
                 voted, sim, repeatOf, base, commentsCollection, pay, unhandled, ret,
                 tagsCollection>>

ReportActions == {"delete", "dismiss", "keep"}

\* POST /api/admin/reports/comments/:commentId/action: 'delete' runs
\* deleteOne on the comment, 'dismiss' empties its reports, anything else is
\* answered 400.
AdminReportAction(s, commentId, action) ==
  /\ call[s].kind = "adminReport"
  /\ call[s].pc = "handler"
  /\ IF action \notin {"delete", "dismiss"}
     THEN /\ call' = Answer(s, [call[s] EXCEPT !.res = 400])
          /\ commentsCollection' = commentsCollection
     ELSE IF commentId = MalformedPostId
     THEN /\ call' = Answer(s, [call[s] EXCEPT !.res = 500])
          /\ commentsCollection' = commentsCollection
     ELSE /\ call' = Answer(s, [call[s] EXCEPT !.res = 200])
          /\ commentsCollection' =
               IF action = "delete"
               THEN SelectSeq(commentsCollection, LAMBDA c : c._id # commentId)
               ELSE commentsCollection
  /\ UNCHANGED <<postsCollection, usersCollection, paymentsCollection, req, started,
                 voted, sim, repeatOf, base, pay, unhandled, ret, tagsCollection>>

----------------------------------------------------------------------------
(* Specifications *)

InitRest ==
  /\ commentsCollection = << >>
  /\ pay = NoPay
  /\ unhandled = FALSE
  /\ ret = << >>
  /\ tagsCollection = << >>
  /\ call = [s \in Slots |-> NoCall]

\* One post as POST /posts leaves it, by an author other than the one who
\* posts in SpecQuota.
OtherPost == InsertPost(<< >>, NewPost("bob"))
Posters == {"alice"}

InitQuota ==
  /\ postsCollection = OtherPost
  /\ usersCollection = << >>
  /\ paymentsCollection = << >>
  /\ req = [s \in Slots |-> Idle]
  /\ started = 0
  /\ voted = [i \in DOMAIN OtherPost |-> {}]
  /\ sim = [i \in DOMAIN OtherPost |-> NewLedger]
  /\ repeatOf = << >>
  /\ base = OtherPost
  /\ InitRest

\* Two posts as POST /posts leaves them, one by each author.
TwoPosts == InsertPost(InsertPost(<< >>, NewPost("alice")), NewPost("bob"))

InitVote ==
  /\ postsCollection = TwoPosts
  /\ usersCollection = << >>
  /\ paymentsCollection = << >>
  /\ req = [s \in Slots |-> Idle]
  /\ started = 0
  /\ voted = [i \in DOMAIN TwoPosts |-> {}]
  /\ sim = [i \in DOMAIN TwoPosts |-> NewLedger]
  /\ repeatOf = << >>
  /\ base = TwoPosts
  /\ InitRest

VoteInputs == (VoteTypes \cup {BadVoteType}) \X (UserIds \cup {NoUserId})

\* Vote requests that do not overlap: one starts only when none is in flight.
NextVote ==
  \/ \E id \in DOMAIN postsCollection \cup {MissingPostId, MalformedPostId}, in \in VoteInputs :
       Quiet /\ VoteStart(1, id, in[1], in[2])
  \/ VoteInit(1)
  \/ VoteApply(1)

Spec == InitVote /\ [][NextVote]_vars

\* Vote requests that overlap: up to MaxInFlight in a batch, their steps interleaved.
NextConc ==
  \/ \E id \in DOMAIN postsCollection \cup {MissingPostId, MalformedPostId}, in \in VoteInputs :
       started < MaxConcRequests /\ VoteStart(NextSlot, id, in[1], in[2])
  \/ \E s \in Slots : VoteInit(s)
  \/ \E s \in Slots : VoteApply(s)

SpecConc == InitVote /\ [][NextConc]_vars

\* Post creation and the membership writers, requests not overlapping.
NextQuota ==
  \/ \E a \in Posters \cup {""}, complete \in BOOLEAN : Quiet /\ PostStart(1, a, complete)
  \/ PostCount(1)
  \/ PostInsert(1)
  \/ \E e \in Idents \cup {""}, st \in Statuses, pi \in PaymentIntentIds,
        m \in MembershipTypes, complete \in BOOLEAN :
       Quiet /\ Payment(1, e, st, pi, m, complete)
  \/ \E e \in Idents \cup {""} : Quiet /\ Upgrade(1, e)
  \/ \E e \in Idents \cup {""} : Quiet /\ ProfilePost(1, e)
  \/ \E e \in Idents \cup {""} : Quiet /\ ProfileGet(1, e)

SpecQuota == InitQuota /\ [][NextQuota]_vars

\* The payment routes, one request at a time, store operations failing or not.
InitPay ==
  /\ postsCollection = << >>
  /\ usersCollection = << >>
  /\ paymentsCollection = << >>
  /\ req = [s \in Slots |-> Idle]
  /\ started = 0
  /\ voted = << >>
  /\ sim = << >>
  /\ repeatOf = << >>
  /\ base = << >>
  /\ InitRest

NextPay ==
  \/ \E e \in Idents \cup {""}, st \in Statuses, pi \in PaymentIntentIds,
        m \in MembershipTypes, complete \in BOOLEAN :
       PayStart(e, st, pi, m, complete)
  \/ \E ok \in BOOLEAN : PayInsert(ok)
  \/ \E ok \in BOOLEAN : PayUpsert(ok)
  \/ PayRespond
  \/ \E ok, rejected \in BOOLEAN : PayCommit(ok, rejected)
  \/ \E ok, rejected \in BOOLEAN : CreatePaymentIntent(ok, rejected)

SpecPay == InitPay /\ [][NextPay]_vars

\* POST /posts by one free-tier author, up to MaxInFlight requests
\* overlapping: a request starts in any slot whose last request was answered.
InitRace ==
  /\ postsCollection = OtherPost
  /\ \E m \in {"free", Undefined} :
       usersCollection = IF m = Undefined THEN << >>
                         ELSE <<[email |-> "alice", membership |-> m]>>
  /\ paymentsCollection = << >>
  /\ req = [s \in Slots |-> Idle]
  /\ started = 0
  /\ voted = [i \in DOMAIN OtherPost |-> {}]
  /\ sim = [i \in DOMAIN OtherPost |-> NewLedger]
  /\ repeatOf = << >>
  /\ base = OtherPost
  /\ InitRest

NextRace ==
  \/ \E s \in Slots, a \in Posters \cup {""}, complete \in BOOLEAN :
       Free(s) /\ PostStart(s, a, complete)
  \/ \E s \in Slots : PostCount(s)
  \/ \E s \in Slots : PostInsert(s)

SpecRace == InitRace /\ [][NextRace]_vars

\* The routes that create user records, GET /api/users/profile requests
\* overlapping with each other and with the upserts.
NextUsers ==
  \/ \E s \in Slots, e \in Idents \cup {""} : ProfileFind(s, e)
  \/ \E s \in Slots : ProfileInsert(s)
  \/ \E e \in Idents \cup {""} : Upgrade(1, e)
  \/ \E e \in Idents \cup {""} : ProfilePost(1, e)
  \/ \E e \in Idents \cup {""}, st \in Statuses, pi \in PaymentIntentIds,
        m \in MembershipTypes, complete \in BOOLEAN :
       Payment(1, e, st, pi, m, complete)

SpecUsers == InitPay /\ [][NextUsers]_vars

\* The admin routes and the role route of the main server, requests
\* overlapping.  One admin and one member are registered; the first post has
\* one comment.
InitAdmin ==
  /\ postsCollection = [TwoPosts EXCEPT ![1].commentCount = 1]
  /\ usersCollection = <<[email |-> "alice", membership |-> "free", role |-> "admin"],
                         [email |-> "bob", membership |-> "free", role |-> "member"]>>
  /\ paymentsCollection = << >>
  /\ req = [s \in Slots |-> Idle]
  /\ started = 1
  /\ voted = [i \in DOMAIN TwoPosts |-> {}]
  /\ sim = [i \in DOMAIN TwoPosts |-> NewLedger]
  /\ repeatOf = << >>
  /\ base = TwoPosts
  /\ commentsCollection = <<[_id |-> 1, postId |-> AsObjectId(1), authorName |-> "bob"]>>
  /\ pay = NoPay
  /\ unhandled = FALSE
  /\ ret = << >>
  /\ tagsCollection = << >>
  /\ call = [s \in Slots |-> NoCall]

\* The :userId of a role request: a user's id, an id of no user, a malformed id.
RoleTargets == UserIdsOf(usersCollection) \cup {MissingPostId, MalformedPostId}

NextAdmin ==
  \/ \E s \in Slots, kind \in AdminKinds, auth \in AuthHeaders : AdminVerify(s, kind, auth)
  \/ \E s \in Slots, name \in TagNames : AdminTagFind(s, name)
  \/ \E s \in Slots : AdminTagInsert(s)
  \/ \E s \in Slots, target \in RoleTargets, role \in Roles :
       AdminRolePatch(s, target, role)
  \/ \E s \in Slots, target \in RoleTargets, role \in Roles :
       RolePatch(s, target, role)
  \/ \E s \in Slots, c \in CommentIds \cup {MalformedPostId}, action \in ReportActions :
       AdminReportAction(s, c, action)

SpecAdmin == InitAdmin /\ [][NextAdmin]_vars

\* Comments and post deletion on the two posts, requests not overlapping.
NextDelete ==
  \/ \E id \in DOMAIN TwoPosts \cup {MissingPostId, MalformedPostId},
        a \in Idents \cup {""}, complete \in BOOLEAN :
       Quiet /\ CommentAdd(1, id, a, complete)
  \/ \E id \in DOMAIN TwoPosts \cup {MissingPostId, MalformedPostId},
        a \in Idents \cup {""} :
       Quiet /\ DeletePost(1, id, a)
  \/ \E id \in DOMAIN TwoPosts \cup {MissingPostId, MalformedPostId},
        c \in CommentIds \cup {MissingPostId, MalformedPostId},
        a \in Idents \cup {""} :
       Quiet /\ DeleteComment(1, id, c, a)

SpecDelete == InitVote /\ [][NextDelete]_vars

\* canUserCreatePost on collections drawn from bounded sets: the first
\* author has some active posts, at most one deleted and at most one without
\* status, and at most one user record; the second author at most one post.
Copies(n, doc) == [i \in 1..n |-> doc]

InitCan ==
  /\ \E active \in 0..MaxActivePosts, deleted \in 0..1, plain \in 0..1, other \in 0..1 :
       postsCollection = Copies(active, PostOf("alice", "active"))
                           \o Copies(deleted, PostOf("alice", "deleted"))
                           \o Copies(plain, PostOf("alice", Undefined))
                           \o Copies(other, PostOf("bob", "active"))
  /\ \E m \in Memberships \cup {Undefined} :
       usersCollection = IF m = Undefined THEN << >>
                         ELSE <<[email |-> "alice", membership |-> m]>>
  /\ paymentsCollection = << >>
  /\ req = [s \in Slots |-> Idle]
  /\ started = 0
  /\ voted = << >>
  /\ sim = << >>
  /\ repeatOf = << >>
  /\ base = << >>
  /\ InitRest

NextCan == \E email \in Idents, ok \in BOOLEAN : CallCanUserCreatePost(email, ok)

SpecCan == InitCan /\ [][NextCan]_vars

----------------------------------------------------------------------------
(* Reading a post document as the vote design reads it *)

\* The entries of the votes map with a given value.
EntriesWith(doc, direction) ==
  {p \in DOMAIN doc.votes : doc.votes[p] = direction}

\* What is stored under votes.<userId>.
StoredEntry(doc, userId) ==
  IF userId \in DOMAIN doc.votes THEN doc.votes[userId] ELSE NoVote

\* A vote request that was applied and answered 200.
AppliedVote(s) ==
  /\ req[s].kind = "vote"
  /\ req[s].pc = "done"
  /\ req[s].res.status = 200

\* The vote handler run with no other request between its steps.
VoteSerial(doc, voteType, userId) ==
  ApplyUpdate(IF doc.hasVotes THEN doc ELSE InitVotes(doc),
              VoteUpdate(doc, voteType, userId))

\* The documents the requests of the slots S leave, run one after the other
\* in some order, from doc.
RECURSIVE SerialOutcomes(_, _)
SerialOutcomes(doc, S) ==
  IF S = {} THEN {doc}
  ELSE UNION {SerialOutcomes(VoteSerial(doc, req[s].voteType, req[s].userId), S \ {s}) : s \in S}

\* The applied votes of the finished batch on post id.
BatchOn(id) == {s \in Slots : AppliedVote(s) /\ req[s].postId = id}

----------------------------------------------------------------------------
(* Claims *)

\* C1: after any sequence of non-overlapping vote requests from N distinct
\* voters on a post, upVote is the number of entries of the votes map with
\* value 'upvote', downVote the number with value 'downvote', and
\* upVote + downVote <= N.
C1_CountersMatchVoteMap ==
  Quiet =>
    \A id \in DOMAIN postsCollection :
      LET doc == postsCollection[id]
      IN  /\ doc.upVote = Cardinality(EntriesWith(doc, "upvote"))
          /\ doc.downVote = Cardinality(EntriesWith(doc, "downvote"))
          /\ doc.upVote + doc.downVote <= Cardinality(voted[id])

\* C2: two overlapping vote requests by distinct voters on the same post
\* leave the counters and the votes map that running them one after the
\* other leaves.
C2_DistinctVotersSerializable ==
  Quiet =>
    \A id \in DOMAIN postsCollection :
      LET S == BatchOn(id)
      IN  (/\ Cardinality(S) >= 2
           /\ \A s, t \in S : s # t => req[s].userId # req[t].userId)
          => postsCollection[id] \in SerialOutcomes(base[id], S)

\* C3: two overlapping vote requests by the same voter on the same post
\* leave the counters and the entry that some serial order of them leaves.
C3_SameVoterSerializable ==
  Quiet =>
    \A id \in DOMAIN postsCollection :
      LET S == BatchOn(id)
      IN  (/\ Cardinality(S) >= 2
           /\ \A s, t \in S : req[s].userId = req[t].userId)
          => postsCollection[id] \in SerialOutcomes(base[id], S)

\* C4: after each of a sequence of non-overlapping votes, the stored entry of
\* every voter and the two counters are those the three toggle rules give.
C4_MatchesToggleRules ==
  Quiet =>
    \A id \in DOMAIN postsCollection :
      LET doc == postsCollection[id]
      IN  /\ doc.upVote = sim[id].up
          /\ doc.downVote = sim[id].down
          /\ \A u \in UserIds : StoredEntry(doc, u) = sim[id].entry[u]

\* C5: the same vote applied twice in a row leaves upVote, downVote and the
\* votes map as they were before the first of the two.
C5_TwiceIsNetZero ==
  (AppliedVote(1) /\ repeatOf # << >>) =>
    LET doc == postsCollection[req[1].postId]
        before == repeatOf[1]
    IN  /\ doc.upVote = before.upVote
        /\ doc.downVote = before.downVote
        /\ doc.votes = before.votes

\* C6: in every reachable state, under any interleaving of vote requests,
\* upVote and downVote of every post are >= 0.
C6_CountersNonNegative ==
  \A id \in DOMAIN postsCollection :
    postsCollection[id].upVote >= 0 /\ postsCollection[id].downVote >= 0

\* C7: the response of a successful vote carries the counters as stored
\* after the vote and the voter's resulting direction.
C7_ResponseIsUpdatedState ==
  \A s \in Slots :
    (Quiet /\ AppliedVote(s)) =>
      LET doc == postsCollection[req[s].postId]
          now == StoredEntry(doc, req[s].userId)
      IN  /\ req[s].res.upVote = doc.upVote
          /\ req[s].res.downVote = doc.downVote
          /\ req[s].res.userVote = (IF now = NoVote THEN Undefined ELSE now)

\* C8: in every state between and after the store operations of a vote
\* request, the counter change and the vote-map entry change of that request
\* are both present or both absent.
C8_NoPartialVoteUpdate ==
  \A s \in Slots :
    (req[s].kind = "vote" /\ req[s].post # << >>) =>
      LET read == req[s].post[1]
          doc == postsCollection[req[s].postId]
          update == VoteUpdate(read, req[s].voteType, req[s].userId)
          countersPresent ==
            /\ doc.upVote = read.upVote + update.inc["upVote"]
            /\ doc.downVote = read.downVote + update.inc["downVote"]
          countersAbsent ==
            /\ doc.upVote = read.upVote
            /\ doc.downVote = read.downVote
          entryPresent ==
            StoredEntry(doc, req[s].userId) =
              (IF update.op = "set" THEN update.value ELSE NoVote)
          entryAbsent ==
            StoredEntry(doc, req[s].userId) = StoredEntry(read, req[s].userId)
      IN  \/ countersPresent /\ entryPresent
          \/ countersAbsent /\ entryAbsent

\* C8 witness: a vote request between its two store operations (votes = {}
\* written, the update not yet), and one whose update has been applied.
C8_Witness ==
  \E s \in Slots :
    /\ req[s].kind = "vote"
    /\ req[s].pc = "update"
    /\ ~req[s].post[1].hasVotes
    /\ postsCollection[req[s].postId].hasVotes
    /\ \E id \in DOMAIN postsCollection : postsCollection[id].upVote > 0

\* A POST /posts request that passed validation and has been answered.
AnsweredPost(s) ==
  /\ req[s].kind = "post"
  /\ req[s].pc = "done"
  /\ req[s].res.status # 400

\* Free tier: no user record, or membership 'free'.
FreeTier(user) == user = << >> \/ user[1].membership = "free"

\* C9: once a payment with status 'succeeded' has made an identity
\* 'premium', every POST /posts by that identity is answered 201, however
\* many posts the author has.
C9_PremiumAlwaysAllowed ==
  \A s \in Slots :
    (/\ AnsweredPost(s)
     /\ req[s].user # << >>
     /\ req[s].user[1].membership = "premium")
    => req[s].res.status = 201

\* C10, the conclusion it draws: without concurrency the post count of a
\* free-tier author never exceeds FREE_LIMIT = 5.
C10_FreeCountNeverExceedsLimit ==
  Quiet =>
    \A a \in Idents :
      FreeTier(FindUser(usersCollection, a))
        => CountPosts(postsCollection, a) <= FREE_USER_POST_LIMIT

\* C10, the gate: a well-formed POST /posts by a free-tier author with c posts
\* is answered 201 and inserts the post iff c < 5 and is answered 403 with
\* nothing inserted iff c >= 5, so that no such request takes the author's
\* count above 5.
C10_FreeGate ==
  \A s \in Slots :
    (AnsweredPost(s) /\ FreeTier(req[s].user)) =>
      LET c == req[s].count
          now == CountPosts(postsCollection, req[s].authorName)
      IN  /\ req[s].res.status \in {201, 403}
          /\ req[s].res.status = 201 <=> c < FREE_USER_POST_LIMIT
          /\ req[s].res.status = 201 => now = c + 1 /\ now <= FREE_USER_POST_LIMIT
          /\ req[s].res.status = 403 => now = c

\* C10 witness: a free-tier author with 5 posts has been answered 403.
C10_Witness ==
  \E s \in Slots :
    /\ AnsweredPost(s)
    /\ FreeTier(req[s].user)
    /\ req[s].count = FREE_USER_POST_LIMIT
    /\ req[s].res.status = 403

\* C11: canUserCreatePost(email) answers canPost = TRUE for a user record
\* with membership 'premium' whatever the post count; for a missing record or
\* any other membership it answers canPost = (number of the author's posts
\* whose status is not 'deleted') < FREE_USER_POST_LIMIT, with postCount that
\* number and limit FREE_USER_POST_LIMIT.
C11_CanUserCreatePost ==
  (ret # << >> /\ ~ret[1].result.threw) =>
    LET email == ret[1].email
        result == ret[1].result
        premium == \E i \in 1..Len(usersCollection) :
                     /\ usersCollection[i].email = email
                     /\ usersCollection[i].membership = "premium"
        count == Cardinality({i \in DOMAIN postsCollection :
                                /\ postsCollection[i].authorEmail = email
                                /\ postsCollection[i].status # "deleted"})
    IN  IF premium
        THEN result.canPost = TRUE
        ELSE /\ result.canPost = (count < FREE_USER_POST_LIMIT)
             /\ result.postCount = count
             /\ result.limit = FREE_USER_POST_LIMIT

\* C11 witness: an author without user record who has a deleted post and
\* FREE_USER_POST_LIMIT other posts is answered canPost = FALSE.
C11_Witness ==
  /\ ret # << >>
  /\ ~ret[1].result.threw
  /\ FindUser(usersCollection, ret[1].email) = << >>
  /\ \E i \in DOMAIN postsCollection :
       postsCollection[i] = PostOf(ret[1].email, "deleted")
  /\ ret[1].result.postCount = FREE_USER_POST_LIMIT
  /\ ret[1].result.canPost = FALSE

\* C12: every POST /posts request rejected because the post limit is reached
\* is answered 403 with limitReached = true in the body.
C12_LimitReachedFlag ==
  \A s \in Slots :
    (req[s].kind = "post" /\ req[s].pc = "done" /\ req[s].res.status = 403)
      => req[s].res.limitReached = "true"

\* C13: the membership of an existing user record changes only in a
\* POST /api/payments request with status 'succeeded'.
C13_MembershipOnlyByPayment ==
  [][\A e \in Idents :
       LET old == FindUser(usersCollection, e)
           new == FindUser(usersCollection', e)
       IN  (old # << >> /\ new # << >> /\ new[1].membership # old[1].membership)
             => /\ req'[1].kind = "payment"
                /\ \E i \in 1..Len(paymentsCollection') :
                     /\ i > Len(paymentsCollection)
                     /\ paymentsCollection'[i].email = e
                     /\ paymentsCollection'[i].status = "succeeded"]_vars

\* A POST /api/payments request with all required fields whose transaction
\* was committed.
Settled ==
  /\ pay.kind = "payment"
  /\ pay.pc = "done"
  /\ pay.committed

\* C14: a committed POST /api/payments with all required fields has inserted
\* one payment record; with status 'succeeded' the user record of its email
\* exists with membership = membershipType and no other record has changed;
\* with another status the users collection is as before and the answer
\* carries membershipUpdated = false.
C14_PaymentSettles ==
  Settled =>
    /\ paymentsCollection = Append(pay.before.payments, PaymentDoc(pay))
    /\ IF pay.status = "succeeded"
       THEN /\ FindUser(usersCollection, pay.email) # << >>
            /\ FindUser(usersCollection, pay.email)[1].membership = pay.membershipType
            /\ \A e \in Idents \ {pay.email} :
                 FindUser(usersCollection, e) = FindUser(pay.before.users, e)
            /\ Len(usersCollection) =
                 Len(pay.before.users)
                   + (IF FindUser(pay.before.users, pay.email) = << >> THEN 1 ELSE 0)
       ELSE /\ usersCollection = pay.before.users
            /\ pay.res.membershipUpdated = FALSE

\* C14 witness: a succeeded payment created the user record of its email,
\* after a payment with another status left the users collection alone.
C14_Witness ==
  /\ Settled
  /\ pay.status = "succeeded"
  /\ FindUser(pay.before.users, pay.email) = << >>
  /\ FindUser(usersCollection, pay.email) # << >>
  /\ \E i \in 1..Len(paymentsCollection) : paymentsCollection[i].status = "failed"

\* The payment records with status 'succeeded' for an email.
SucceededFor(e) ==
  {i \in 1..Len(paymentsCollection) :
     paymentsCollection[i].email = e /\ paymentsCollection[i].status = "succeeded"}

\* C15: in every state of the collections, an email has a payment record with
\* status 'succeeded' iff its membership upsert is there too (the user record
\* exists and carries the membershipType of the latest such payment); a
\* request whose transaction did not commit leaves both collections as they
\* were.
C15_SettlementAllOrNothing ==
  /\ \A e \in Idents :
       LET paid == SucceededFor(e)
           user == FindUser(usersCollection, e)
       IN  /\ (paid # {}) <=> (user # << >>)
           /\ paid # {} =>
                LET last == CHOOSE i \in paid : \A j \in paid : j <= i
                IN  user[1].membership = paymentsCollection[last].membershipType
  /\ (pay.kind = "payment" /\ ~pay.committed) =>
       /\ paymentsCollection = pay.before.payments
       /\ usersCollection = pay.before.users

\* C15 witness: after a settled payment, a second request staged both writes
\* and its commit failed.
C15_Witness ==
  /\ pay.kind = "payment"
  /\ pay.pc = "done"
  /\ ~pay.committed
  /\ pay.status = "succeeded"
  /\ pay.res.status = 200
  /\ SucceededFor("alice") # {}

\* C16: the payments collection never holds two records of the same
\* submission (same paymentIntentId and same fields).
C16_IdempotentOnPaymentIntentId ==
  \A i, j \in 1..Len(paymentsCollection) :
    paymentsCollection[i] = paymentsCollection[j] => i = j

\* C17: a POST /api/payments request that misses a required field is answered
\* 400 and leaves the payments and users collections unchanged.
C17_MissingFieldIs400 ==
  (pay.kind = "payment" /\ pay.pc = "done" /\ (~pay.complete \/ pay.email = "")) =>
    /\ pay.res.status = 400
    /\ paymentsCollection = pay.before.payments
    /\ usersCollection = pay.before.users

\* C20: no handler's promise is left rejected, and every request that has
\* ended was answered.
C20_NoUnhandledFailure ==
  /\ unhandled = FALSE
  /\ pay.pc = "done" => pay.res.status # 0

\* A vote request that was answered.
AnsweredVote(s) == req[s].kind = "vote" /\ req[s].pc = "done"

\* C18: a vote request with a voteType outside {upvote, downvote}, an empty
\* or missing userId or a malformed post id is answered 400, one with a
\* well-formed id of no post is answered 404, and none of them changes a post.
C18_VoteRejections ==
  \A s \in Slots :
    AnsweredVote(s) =>
      LET invalid == \/ req[s].voteType \notin VoteTypes
                     \/ req[s].userId = NoUserId
                     \/ req[s].postId = MalformedPostId
          missing == ~invalid /\ req[s].postId \notin DOMAIN postsCollection
      IN  /\ invalid => req[s].res.status = 400
          /\ missing => req[s].res.status = 404
          /\ (invalid \/ missing) => postsCollection = base

\* C19: a post leaves the collection only in a DELETE /posts/:id request for
\* it whose authorName is the post's authorName; a request naming another
\* author is answered 403, one for a post that does not exist 404, and both
\* leave the posts and comments collections unchanged.
C19_DeleteOnlyByAuthor ==
  [][/\ \A id \in DOMAIN postsCollection :
          id \notin DOMAIN postsCollection'
            => /\ req'[1].kind = "delete"
               /\ req'[1].postId = id
               /\ req'[1].authorName = postsCollection[id].authorName
               /\ req'[1].res.status = 200
     /\ (req'[1].kind = "delete" /\ req'[1].authorName # "")
          => LET id == req'[1].postId
             IN  /\ (id \in DOMAIN postsCollection
                       /\ postsCollection[id].authorName # req'[1].authorName)
                      => /\ req'[1].res.status = 403
                         /\ UNCHANGED <<postsCollection, commentsCollection>>
                 /\ (id # MalformedPostId /\ id \notin DOMAIN postsCollection)
                      => /\ req'[1].res.status = 404
                         /\ UNCHANGED <<postsCollection, commentsCollection>>
                 /\ (id \in DOMAIN postsCollection
                       /\ postsCollection[id].authorName = req'[1].authorName)
                      => id \notin DOMAIN postsCollection']_vars

\* C19 witness: with comments stored, one post has been deleted by its author
\* and a request for the other post naming that same author was answered 403.
C19_Witness ==
  /\ commentsCollection # << >>
  /\ Cardinality(DOMAIN postsCollection) = 1
  /\ req[1].kind = "delete"
  /\ req[1].res.status = 403
  /\ req[1].postId \in DOMAIN postsCollection

\* C21: after a successful DELETE /posts/:id no comment created through
\* POST /posts/:id/comments for that post remains in the comments collection.
C21_DeleteCascades ==
  (req[1].kind = "delete" /\ req[1].res.status = 200) =>
    \A i \in 1..Len(commentsCollection) :
      commentsCollection[i].postId # AsObjectId(req[1].postId)

\* C25: whenever POST /api/payments has answered 'Payment recorded
\* successfully', the transaction of that request is committed.
C25_SuccessMeansCommitted ==
  (pay.kind = "payment" /\ pay.pc = "done" /\ pay.res.status = 200)
    => /\ pay.committed
       /\ \E i \in 1..Len(paymentsCollection) : paymentsCollection[i] = PaymentDoc(pay)

\* C30: for every non-empty userId, with or without '.', the lookup
\* post.votes[userId] on the post a vote request read gives what is stored
\* under the path votes.<userId> of that post.
C30_LookupFindsStoredVote ==
  \A s \in Slots :
    (req[s].kind = "vote" /\ req[s].post # << >> /\ req[s].userId # NoUserId) =>
      LET read == req[s].post[1]
          stored == StoredEntry(read, req[s].userId)
      IN  JsLookup(read, req[s].userId) = (IF stored = NoVote THEN Undefined ELSE stored)

\* The comments stored for a post.
CommentsOf(id) ==
  {i \in 1..Len(commentsCollection) : commentsCollection[i].postId = AsObjectId(id)}

\* C22: a comment leaves the collection through
\* DELETE /posts/:postId/comments/:commentId only when the authorName of the
\* request is the comment's author or the author of the post the comment
\* belongs to, whatever :postId the URL names.
C22_CommentDeletedOnlyByItsAuthors ==
  [][\A i \in 1..Len(commentsCollection) :
       LET c == commentsCollection[i]
           own == c.postId[2]
       IN  (FindComment(commentsCollection', c._id) = << >>)
             => \/ req'[1].authorName = c.authorName
                \/ /\ own \in DOMAIN postsCollection
                   /\ req'[1].authorName = postsCollection[own].authorName]_vars

\* C27: every existing post's commentCount is the number of comments stored
\* for that post, and is >= 0.
C27_CommentCountMatches ==
  \A id \in DOMAIN postsCollection :
    /\ postsCollection[id].commentCount = Cardinality(CommentsOf(id))
    /\ postsCollection[id].commentCount >= 0

C26_OneRecordPerEmail ==
  \A e \in Idents :
    Cardinality({i \in 1..Len(usersCollection) : usersCollection[i].email = e}) <= 1

\* The user record a verified token decodes to carries role 'admin'.
IsAdminToken(users, auth) ==
  /\ Len(auth) >= 2
  /\ auth[2] # "bad"
  /\ \E i \in 1..Len(users) : users[i].email = auth[2] /\ RoleOf(users[i]) = "admin"

\* The step is the arrival of a request to an admin route in slot s.
AdminArrival(s) ==
  /\ CallFree(s)
  /\ call'[s] # call[s]
  /\ call'[s].kind \in AdminKinds

\* What verifyAdmin owes the request arriving in slot s when it does not pass.
RejectedArrival(s) ==
  LET auth == call'[s].auth
  IN  /\ Len(auth) < 2 => (call'[s].pc = "done" /\ call'[s].res = 401)
      /\ (Len(auth) >= 2 /\ ~IsAdminToken(usersCollection, auth)) =>
           (call'[s].pc = "done" /\ call'[s].res = 403)
      /\ ~IsAdminToken(usersCollection, auth) =>
           UNCHANGED <<postsCollection, usersCollection, paymentsCollection,
                       commentsCollection, tagsCollection>>

\* The step is the handler step of a request verifyAdmin has passed.
VerifiedHandlerStep ==
  \E s \in Slots :
    /\ call[s].kind \in AdminKinds
    /\ call[s].verified
    /\ call[s].pc \in {"handler", "insert"}
    /\ call'[s].pc = "done"

AdminStep ==
  /\ \A s \in Slots : AdminArrival(s) => RejectedArrival(s)
  /\ (tagsCollection' # tagsCollection \/ commentsCollection' # commentsCollection) =>
       VerifiedHandlerStep

\* C23: a request to an admin route with no Authorization header or no
\* token is answered 401, one whose token fails verification or whose email
\* has no user record with role 'admin' is answered 403, in all these cases
\* no collection is modified, and a step that writes the tags or the
\* comments is the handler step of a request verifyAdmin has passed.
C23_AdminOnlyAfterVerify == [][AdminStep]_vars

\* A member's token was answered 403 after an admin's request had created a tag.
C23_Witness ==
  /\ tagsCollection # << >>
  /\ \E s \in Slots :
       /\ call[s].kind = "adminTags"
       /\ call[s].auth = <<"Bearer", "bob">>
       /\ call[s].res = 403

\* C28: a user's role changes only in the step of a request that passed
\* admin verification.
C28_RoleOnlyByAdmin ==
  [][\A i \in 1..Len(usersCollection) :
       (i <= Len(usersCollection') /\ RoleOf(usersCollection'[i]) # RoleOf(usersCollection[i])) =>
         \E s \in Slots : call[s].verified /\ call[s].pc = "handler" /\ call'[s].pc = "done"]_vars

\* C29: the tags collection holds at most one tag with a given name.
C29_TagNamesUnique ==
  \A i, j \in 1..Len(tagsCollection) :
    tagsCollection[i].name = tagsCollection[j].name => i = j

====
